---------------------------- MODULE Spec2Model ----------------------------
(***************************************************************************)
(* Model of the recovery root table (roots.c / roots.h): symbolic volume   *)
(* labels, path resolution and translation, the package root binding, and  *)
(* the mount / unmount / probe / format operations over the live mount     *)
(* table.                                                                  *)
(*                                                                         *)
(* A `const char *` of the program is a pointer: here the name of the      *)
(* string object it points to, or NULL.  Pointers are compared by          *)
(* identity (==) as names, and by content (strcmp, strncmp, strlen)        *)
(* through Mem, which gives the characters of each string object as a      *)
(* sequence of one-character strings.  The canonical marker pointers of    *)
(* roots.c:49-52 are arrays "@\0g_xxx": distinct objects whose C-string    *)
(* content is "@".  Paths handed in by callers are character sequences.    *)
(***************************************************************************)
EXTENDS Integers, Sequences, FiniteSets, TLC

VARIABLES g_roots,          \* per table entry: filesystem, filesystem_options
          mounted,          \* mount points present in the live mount table
          g_package,        \* bound archive handle, or NullArchive
          g_package_path,   \* heap block holding the owned path, or NoBlock
          heap,             \* live heap blocks: block id -> string
          caller_path,      \* the root path the caller works on
          board,            \* the build: which defaults of roots.h it overrides
          last,             \* the last call: operation, arguments, result
          ncalls            \* number of calls made so far

vars ==
    <<g_roots, mounted, g_package, g_package_path, heap, caller_path, board, last, ncalls>>

-----------------------------------------------------------------------------
(* Bounds of the model *)

MaxCap == 15        \* largest destination capacity handed to translate
MaxBlocks == 3      \* heap blocks that may be live at once
MaxPkgCalls == 4    \* calls per run of the package binding model

-----------------------------------------------------------------------------
(* C strings *)

NULL == "NULL"
NUL == "NUL"

g_mtd_device == "g_mtd_device"
g_mmc_device == "g_mmc_device"
g_raw == "g_raw"
g_package_file == "g_package_file"

\* the characters of the string objects the program reads
Mem ==
    (g_mtd_device :> <<"@", NUL, "g", "_", "m", "t", "d">>) @@
    (g_mmc_device :> <<"@", NUL, "g", "_", "m", "m", "c">>) @@
    (g_raw :> <<"@", NUL, "g", "_", "r", "a", "w">>) @@
    (g_package_file :> <<"@", NUL, "g", "_", "p", "k", "g">>) @@
    ("CACHE:" :> <<"C","A","C","H","E",":">>) @@
    ("DATA:" :> <<"D","A","T","A",":">>) @@
    ("DATADATA:" :> <<"D","A","T","A","D","A","T","A",":">>) @@
    ("SYSTEM:" :> <<"S","Y","S","T","E","M",":">>) @@
    ("PACKAGE:" :> <<"P","A","C","K","A","G","E",":">>) @@
    ("BOOT:" :> <<"B","O","O","T",":">>) @@
    ("RECOVERY:" :> <<"R","E","C","O","V","E","R","Y",":">>) @@
    ("SDCARD:" :> <<"S","D","C","A","R","D",":">>) @@
    ("SDEXT:" :> <<"S","D","E","X","T",":">>) @@
    ("MBM:" :> <<"M","B","M",":">>) @@
    ("TMP:" :> <<"T","M","P",":">>) @@
    ("/cache" :> <<"/","c","a","c","h","e">>) @@
    ("/data" :> <<"/","d","a","t","a">>) @@
    ("/dbdata" :> <<"/","d","b","d","a","t","a">>) @@
    ("/system" :> <<"/","s","y","s","t","e","m">>) @@
    ("/" :> <<"/">>) @@
    ("/sdcard" :> <<"/","s","d","c","a","r","d">>) @@
    ("/sd-ext" :> <<"/","s","d","-","e","x","t">>) @@
    ("/tmp" :> <<"/","t","m","p">>) @@
    ("unknown" :> <<"u","n","k","n","o","w","n">>) @@
    ("vfat" :> <<"v","f","a","t">>) @@
    ("auto" :> <<"a","u","t","o">>) @@
    ("rfs" :> <<"r","f","s">>) @@
    ("ext4" :> <<"e","x","t","4">>) @@
    ("ext3" :> <<"e","x","t","3">>) @@
    ("ext" :> <<"e","x","t">>) @@
    ("yaffs2" :> <<"y","a","f","f","s","2">>)

\* offset of the first character of s, from offset i, that is in stop or
\* is the terminator
RECURSIVE ScanTo(_, _, _)
ScanTo(s, stop, i) ==
    IF i >= Len(s) \/ s[i + 1] = NUL \/ s[i + 1] \in stop THEN i
    ELSE ScanTo(s, stop, i + 1)

strlen(s) == ScanTo(s, {}, 0)

\* the character stored at offset k of a string object (the terminator
\* follows its last character)
CharAt(s, k) == IF k < Len(s) THEN s[k + 1] ELSE NUL

\* the characters of a C string, without terminator
CStr(s) == SubSeq(s, 1, strlen(s))

\* strncmp(a, b, n) == 0, compared character by character
RECURSIVE strncmp_eq_from(_, _, _, _)
strncmp_eq_from(a, b, n, k) ==
    IF k >= n THEN TRUE
    ELSE IF CharAt(a, k) # CharAt(b, k) THEN FALSE
    ELSE IF CharAt(a, k) = NUL THEN TRUE
    ELSE strncmp_eq_from(a, b, n, k + 1)

strncmp_eq(a, b, n) == strncmp_eq_from(a, b, n, 0)

\* strcmp(a, b) == 0
strcmp_eq(a, b) == CStr(a) = CStr(b)

-----------------------------------------------------------------------------
(* Static configuration: roots.c:40-67 with the defaults of roots.h:26-94 *)

g_fs_options ==
    << [filesystem |-> "rfs", filesystem_options |-> "llw,check=no"],
       [filesystem |-> "ext4",
        filesystem_options |-> "noatime,nodiratime,nodev,data=ordered"] >>

NUM_FSYSTEMS == Len(g_fs_options)

SDCARD_DEVICE_PRIMARY == "/dev/block/mmcblk1p1"
SDCARD_DEVICE_SECONDARY == g_mtd_device
SDEXT_DEVICE == "/dev/block/mmcblk1p2"
SDEXT_FILESYSTEM == "auto"
DATA_DEVICE == "/dev/block/mmcblk0p2"
DATA_FILESYSTEM == "unknown"
DATADATA_DEVICE == "/dev/block/stl10"
DATADATA_FILESYSTEM == "unknown"
CACHE_DEVICE == "/dev/block/stl11"
CACHE_FILESYSTEM == "unknown"
SYSTEM_DEVICE == "/dev/block/stl9"
SYSTEM_FILESYSTEM == "unknown"
DATA_FILESYSTEM_OPTIONS == NULL
CACHE_FILESYSTEM_OPTIONS == NULL
DATADATA_FILESYSTEM_OPTIONS == NULL
SYSTEM_FILESYSTEM_OPTIONS == NULL

RootInfo(n, d, d2, p, m, f, o) ==
    [name |-> n, device |-> d, device2 |-> d2, partition_name |-> p,
     mount_point |-> m, filesystem |-> f, filesystem_options |-> o]

\* the initialiser of g_roots with the defaults of roots.h
DefaultRootTable ==
    << RootInfo("CACHE:", CACHE_DEVICE, NULL, "cache", "/cache", CACHE_FILESYSTEM, CACHE_FILESYSTEM_OPTIONS),
       RootInfo("DATA:", DATA_DEVICE, NULL, "userdata", "/data", DATA_FILESYSTEM, DATA_FILESYSTEM_OPTIONS),
       RootInfo("DATADATA:", DATADATA_DEVICE, NULL, "datadata", "/dbdata", DATADATA_FILESYSTEM, DATADATA_FILESYSTEM_OPTIONS),
       RootInfo("SYSTEM:", SYSTEM_DEVICE, NULL, "system", "/system", SYSTEM_FILESYSTEM, SYSTEM_FILESYSTEM_OPTIONS),
       RootInfo("PACKAGE:", NULL, NULL, NULL, NULL, g_package_file, NULL),
       RootInfo("BOOT:", g_mtd_device, NULL, "boot", NULL, g_raw, NULL),
       RootInfo("RECOVERY:", g_mtd_device, NULL, "recovery", "/", g_raw, NULL),
       RootInfo("SDCARD:", SDCARD_DEVICE_PRIMARY, SDCARD_DEVICE_SECONDARY, NULL, "/sdcard", "vfat", NULL),
       RootInfo("SDEXT:", SDEXT_DEVICE, NULL, NULL, "/sd-ext", SDEXT_FILESYSTEM, NULL),
       RootInfo("MBM:", g_mtd_device, NULL, "mbm", NULL, g_raw, NULL),
       RootInfo("TMP:", NULL, NULL, NULL, "/tmp", NULL, NULL) >>

\* the initialiser of g_roots in a build for a board with the system
\* volume on raw flash and the data volume on an MMC partition: its
\* makefile defines SYSTEM_DEVICE=g_mtd_device, SYSTEM_FILESYSTEM="yaffs2",
\* DATA_DEVICE=g_mmc_device and DATA_FILESYSTEM="ext3"
FlashBoardRootTable ==
    [DefaultRootTable EXCEPT
        ![2].device = g_mmc_device, ![2].filesystem = "ext3",
        ![4].device = g_mtd_device, ![4].filesystem = "yaffs2"]

RootTables == [default |-> DefaultRootTable, flash |-> FlashBoardRootTable]

Boards == DOMAIN RootTables

\* g_roots as compiled: the fields that never change after start-up
RootTable == RootTables[board]

NUM_ROOTS == Len(DefaultRootTable)

\* the fields of an entry that the program assigns after start-up
InitialRoots ==
    [i \in 1 .. NUM_ROOTS |->
        [filesystem |-> RootTable[i].filesystem,
         filesystem_options |-> RootTable[i].filesystem_options]]

-----------------------------------------------------------------------------
(* get_root_info_for_path: index of the entry in the table, 0 for NULL *)

RECURSIVE FirstMatch(_, _, _)
FirstMatch(root_path, len, i) ==
    IF i > NUM_ROOTS THEN 0
    ELSE IF strncmp_eq(Mem[RootTable[i].name], root_path, len) THEN i
    ELSE FirstMatch(root_path, len, i + 1)

\* variant: the compared length leaves out the colon
get_root_info_for_path_short(root_path) ==
    LET c == ScanTo(root_path, {":"}, 0)
    IN  IF CharAt(root_path, c) = NUL THEN 0
        ELSE FirstMatch(root_path, c, 1)

get_root_info_for_path(root_path) ==
    LET c == ScanTo(root_path, {":"}, 0)     \* offset of the first colon
    IN  IF CharAt(root_path, c) = NUL THEN 0
        ELSE FirstMatch(root_path, c + 1, 1)

-----------------------------------------------------------------------------
(* translate_root_path.  The result records whether out_buf was returned,  *)
(* the offsets of out_buf that were written, and the string left in it.    *)

NoTranslation == [ok |-> FALSE, written |-> {}, out |-> <<>>]

\* offset of the first character that is not '/', from offset k
RECURSIVE SkipSlashes(_, _)
SkipSlashes(s, k) ==
    IF CharAt(s, k) # NUL /\ CharAt(s, k) = "/" THEN SkipSlashes(s, k + 1) ELSE k

\* variant: the size test leaves out the inserted separator
TranslateTooSmall_nosep(mp_len, rp_len, out_buf_len) ==
    mp_len + rp_len + 1 > out_buf_len

\* the size test of roots.c:171
TranslateTooSmall(mp_len, rp_len, out_buf_len) ==
    mp_len + 1 + rp_len + 1 > out_buf_len

\* variant: the separator is appended unconditionally
NeedsSeparator_always(mount_point, mp_len) == TRUE

\* the test of roots.c:178 on the copied mount point
NeedsSeparator(mount_point, mp_len) == CharAt(mount_point, mp_len - 1) # "/"

translate_root_path(root_path, out_buf_len) ==
    IF out_buf_len < 1 THEN NoTranslation
    ELSE
    LET i == get_root_info_for_path(root_path) IN
    IF i = 0 \/ RootTable[i].mount_point = NULL THEN NoTranslation
    ELSE
    LET info == RootTable[i]
        mount_point == Mem[info.mount_point]
        start == SkipSlashes(root_path, strlen(Mem[info.name]))
        rest == SubSeq(root_path, start + 1, strlen(root_path))
        mp_len == strlen(mount_point)
        rp_len == strlen(rest)
    IN  IF TranslateTooSmall(mp_len, rp_len, out_buf_len) THEN NoTranslation
        ELSE
        LET sep == NeedsSeparator(mount_point, mp_len)
            mp_len2 == IF sep THEN mp_len + 1 ELSE mp_len
        IN  [ok |-> TRUE,
             written |-> (0 .. mp_len - 1)
                         \cup (IF sep THEN {mp_len} ELSE {})
                         \cup (mp_len2 .. mp_len2 + rp_len - 1)
                         \cup {mp_len2 + rp_len},
             out |-> CStr(mount_point)
                     \o (IF sep THEN <<"/">> ELSE <<>>)
                     \o rest]

-----------------------------------------------------------------------------
(* Inputs *)

NullArchive == "NULL"
NoBlock == 0

Names == {Mem[DefaultRootTable[i].name] : i \in 1 .. NUM_ROOTS}

Suffixes == { <<>>, <<":">>, <<"x">>, <<":", "x">>, <<"/">>,
              <<"l","i","b">>, <<"/","l","i","b">>, <<"/","/","l","i","b">>,
              <<"a","/","b">> }

\* every prefix of every label, followed by every suffix
PathInputs ==
    UNION { { SubSeq(n, 1, k) \o s : k \in 0 .. Len(n), s \in Suffixes } : n \in Names }

Capacities == 0 .. MaxCap

InitPath ==
    /\ board = "default"
    /\ g_roots = InitialRoots
    /\ mounted = {}
    /\ g_package = NullArchive
    /\ g_package_path = NoBlock
    /\ heap = <<>>
    /\ caller_path = <<>>
    /\ last = [op |-> "none"]
    /\ ncalls = 0

-----------------------------------------------------------------------------
(* The path model: resolve and translate are pure functions of the table    *)
(* names and mount points, which never change; each is applied once to     *)
(* every input.                                                            *)

Resolve(p) ==
    /\ last.op = "none"
    /\ last' = [op |-> "get_root_info_for_path", path |-> p,
                info |-> get_root_info_for_path(p)]
    /\ UNCHANGED <<g_roots, mounted, g_package, g_package_path, heap, caller_path, board, ncalls>>

Translate(p, cap) ==
    /\ last.op = "none"
    /\ last' = [op |-> "translate_root_path", path |-> p, cap |-> cap,
                res |-> translate_root_path(p, cap)]
    /\ UNCHANGED <<g_roots, mounted, g_package, g_package_path, heap, caller_path, board, ncalls>>

NextPath ==
    \/ \E p \in PathInputs : Resolve(p)
    \/ \E p \in PathInputs, cap \in Capacities : Translate(p, cap)

SpecPath == InitPath /\ [][NextPath]_vars

-----------------------------------------------------------------------------
(* The package root binding: register_package_root and                     *)
(* translate_package_root_path.  The heap holds the strings made by        *)
(* strdup; a block leaves it only through free.                            *)

Archives == {"zipA", "zipB"}

PackagePaths == { <<"f","o","o">>, <<"b","a","r">> }

Blocks == 1 .. MaxBlocks

\* strdup(s): a fresh block holding s, or NoBlock when memory is exhausted
\* (which may happen at any call, and must once every block is in use)
strdup_results(hp) ==
    {NoBlock} \cup
    (IF Blocks \ DOMAIN hp = {} THEN {}
     ELSE {CHOOSE b \in Blocks \ DOMAIN hp : \A c \in Blocks \ DOMAIN hp : b <= c})

\* free(b); free(NULL) does nothing
free(hp, b) == [c \in DOMAIN hp \ {b} |-> hp[c]]

\* the state after register_package_root(package, package_path), where dup
\* is what strdup returned
register_package_root(pkg, pkg_path, hp, package, package_path, dup) ==
    IF package # NullArchive THEN
        IF dup = NoBlock
        THEN [ret |-> -1, g_package |-> pkg, g_package_path |-> pkg_path, heap |-> hp]
        ELSE [ret |-> 0, g_package |-> package, g_package_path |-> dup,
              heap |-> (dup :> package_path) @@ hp]
    ELSE [ret |-> 0, g_package |-> package, g_package_path |-> NoBlock,
          heap |-> free(hp, pkg_path)]

translate_package_root_path(roots, pkg, root_path, out_buf_len) ==
    LET i == get_root_info_for_path(root_path) IN
    IF i = 0 \/ roots[i].filesystem # g_package_file
    THEN [ok |-> FALSE, out |-> <<>>, out_package |-> NullArchive]
    ELSE
    LET root_len == strlen(Mem[RootTable[i].name])
        rest == SubSeq(root_path, root_len + 1, strlen(root_path))
        root_path_len == strlen(rest)
    IN  IF out_buf_len < root_path_len + 1
        THEN [ok |-> FALSE, out |-> <<>>, out_package |-> NullArchive]
        ELSE [ok |-> TRUE, out |-> rest, out_package |-> pkg]

PackageInputs ==
    { Mem["PACKAGE:"] \o s : s \in Suffixes } \cup
    { Mem["SYSTEM:"] \o <<"b","a","r">>, <<"P","K","G",":","b","a","r">>,
      <<"P","A","C","K","A","G","E">> }

\* last.cleared: the binding was cleared by register_package_root(NULL, ..)
\* and no archive has been bound since
RegisterPackageRoot(package, package_path) ==
    /\ ncalls < MaxPkgCalls
    /\ \E dup \in (IF package # NullArchive THEN strdup_results(heap) ELSE {NoBlock}) :
         LET r == register_package_root(g_package, g_package_path, heap,
                                        package, package_path, dup)
         IN  /\ g_package' = r.g_package
             /\ g_package_path' = r.g_package_path
             /\ heap' = r.heap
             /\ last' = [op |-> "register_package_root", package |-> package,
                         ret |-> r.ret,
                         cleared |-> IF package = NullArchive THEN TRUE
                                     ELSE IF r.ret = 0 THEN FALSE
                                     ELSE last.cleared]
    /\ ncalls' = ncalls + 1
    /\ UNCHANGED <<g_roots, mounted, caller_path, board>>

TranslatePackageRootPath(p, cap) ==
    /\ ncalls < MaxPkgCalls
    /\ last' = [op |-> "translate_package_root_path", path |-> p, cap |-> cap,
                res |-> translate_package_root_path(g_roots, g_package, p, cap),
                cleared |-> last.cleared]
    /\ ncalls' = ncalls + 1
    /\ UNCHANGED <<g_roots, mounted, g_package, g_package_path, heap, caller_path, board>>

InitPkg ==
    /\ board = "default"
    /\ g_roots = InitialRoots
    /\ mounted = {}
    /\ g_package = NullArchive
    /\ g_package_path = NoBlock
    /\ heap = <<>>
    /\ caller_path = <<>>
    /\ last = [op |-> "none", cleared |-> FALSE]
    /\ ncalls = 0

NextPkg ==
    \/ \E a \in Archives \cup {NullArchive}, pp \in PackagePaths :
          RegisterPackageRoot(a, pp)
    \/ \E p \in PackageInputs, cap \in {0, 1, 3, 4, MaxCap} :
          TranslatePackageRootPath(p, cap)

SpecPkg == InitPkg /\ [][NextPkg]_vars

-----------------------------------------------------------------------------
(* The mount, probe and format operations.                                 *)
(*                                                                         *)
(* The collaborators (mount table scanner, mount(2), the external mount    *)
(* and format helpers, mtdutils, mmcutils) are outside roots.c: each call  *)
(* of one may succeed or fail.  A handler is therefore the set of its      *)
(* possible outcomes, one per combination of results of the primitives it  *)
(* actually calls.  An outcome carries the returned status, the mount      *)
(* table afterwards and the primitive calls made, in order, each with its  *)
(* result.  A successful mount puts the mount point into the mount table,  *)
(* a successful unmount takes it out; a mount with a NULL mount point      *)
(* cannot succeed.                                                         *)

Ev(f, r) == <<f, r>>

Outcome(ret, mnt, log) == [ret |-> ret, mounted |-> mnt, log |-> log]

ScanResults == {0, -1}          \* scan_mounted_volumes
UmountResults == {0, -1}        \* unmount_mounted_volume
FindResults == {1, 0}           \* a partition handle, or NULL
HelperResults == {0, 1}         \* exit status of __system(command)
MountResults(mount_point) == IF mount_point = NULL THEN {-1} ELSE {0, -1}
HelperMountResults(mount_point) == IF mount_point = NULL THEN {1} ELSE {0, 1}

AfterMount(mnt, mount_point, r) == IF r = 0 THEN mnt \cup {mount_point} ELSE mnt

\* variant: a failed rescan of the mount table counts as "mounted"
internal_root_mounted_lenient(mnt, i) ==
    LET info == RootTable[i] IN
    IF info.mount_point = NULL THEN {[ret |-> -1, log |-> <<>>]}
    ELSE { [ret |-> IF ret < 0 THEN 0
                    ELSE IF info.mount_point \in mnt THEN 0 ELSE -1,
            log |-> <<Ev("scan_mounted_volumes", ret)>>] : ret \in ScanResults }

\* internal_root_mounted: outcomes [ret, log]
internal_root_mounted(mnt, i) ==
    LET info == RootTable[i] IN
    IF info.mount_point = NULL THEN {[ret |-> -1, log |-> <<>>]}
    ELSE { [ret |-> IF ret < 0 THEN ret
                    ELSE IF info.mount_point \in mnt THEN 0 ELSE -1,
            log |-> <<Ev("scan_mounted_volumes", ret)>>] : ret \in ScanResults }

\* is_root_path_mounted: outcomes [ret, log]
is_root_path_mounted(mnt, path) ==
    LET i == get_root_info_for_path(path) IN
    IF i = 0 THEN {[ret |-> -1, log |-> <<>>]}
    ELSE { [ret |-> IF r.ret >= 0 THEN 1 ELSE 0, log |-> r.log] :
             r \in internal_root_mounted(mnt, i) }

\* mount_internal: outcomes [ret, ev]
mount_internal(device, mount_point, filesystem, filesystem_options) ==
    IF ~strcmp_eq(Mem[filesystem], Mem["auto"]) /\ filesystem_options = NULL
    THEN { [ret |-> r, ev |-> Ev("mount", r)] : r \in MountResults(mount_point) }
    ELSE { [ret |-> r, ev |-> Ev("__system mount", r)] :
             r \in HelperMountResults(mount_point) }

\* variant: the primary device is the only one tried
ensure_root_path_mounted_nofallback(roots, mnt, path) ==
    LET i == get_root_info_for_path(path) IN
    IF i = 0 THEN {Outcome(-1, mnt, <<>>)}
    ELSE
    LET info == RootTable[i]
        fs == roots[i].filesystem
        opts == roots[i].filesystem_options
        NotMounted(log) ==
            IF info.device = g_mtd_device THEN
                IF info.partition_name = NULL THEN {Outcome(-1, mnt, log)}
                ELSE UNION {
                    IF part = 0
                    THEN {Outcome(-1, mnt, log \o <<Ev("mtd_scan_partitions", 0),
                                     Ev("mtd_find_partition_by_name", part)>>)}
                    ELSE { Outcome(r, AfterMount(mnt, info.mount_point, r),
                                   log \o <<Ev("mtd_scan_partitions", 0),
                                            Ev("mtd_find_partition_by_name", part),
                                            Ev("mtd_mount_partition", r)>>) :
                             r \in MountResults(info.mount_point) }
                    : part \in FindResults }
            ELSE IF \/ info.device = NULL \/ info.mount_point = NULL
                    \/ fs = NULL \/ fs = g_raw \/ fs = g_package_file
            THEN {Outcome(-1, mnt, log)}
            ELSE { Outcome(IF m.ret = 0 THEN 0 ELSE -1,
                           AfterMount(mnt, info.mount_point, m.ret),
                           log \o <<Ev("mkdir", 0), m.ev>>) :
                     m \in mount_internal(info.device, info.mount_point, fs, opts) }
    IN  UNION { IF q.ret >= 0 THEN {Outcome(0, mnt, q.log)} ELSE NotMounted(q.log) :
                  q \in internal_root_mounted(mnt, i) }

\* ensure_root_path_mounted: outcomes [ret, mounted, log]
ensure_root_path_mounted(roots, mnt, path) ==
    LET i == get_root_info_for_path(path) IN
    IF i = 0 THEN {Outcome(-1, mnt, <<>>)}
    ELSE
    LET info == RootTable[i]
        fs == roots[i].filesystem
        opts == roots[i].filesystem_options
        NotMounted(log) ==
            IF info.device = g_mtd_device THEN
                IF info.partition_name = NULL THEN {Outcome(-1, mnt, log)}
                ELSE UNION {
                    IF part = 0
                    THEN {Outcome(-1, mnt, log \o <<Ev("mtd_scan_partitions", 0),
                                     Ev("mtd_find_partition_by_name", part)>>)}
                    ELSE { Outcome(r, AfterMount(mnt, info.mount_point, r),
                                   log \o <<Ev("mtd_scan_partitions", 0),
                                            Ev("mtd_find_partition_by_name", part),
                                            Ev("mtd_mount_partition", r)>>) :
                             r \in MountResults(info.mount_point) }
                    : part \in FindResults }
            ELSE IF \/ info.device = NULL \/ info.mount_point = NULL
                    \/ fs = NULL \/ fs = g_raw \/ fs = g_package_file
            THEN {Outcome(-1, mnt, log)}
            ELSE UNION {
                IF m.ret = 0
                THEN {Outcome(0, AfterMount(mnt, info.mount_point, 0),
                              log \o <<Ev("mkdir", 0), m.ev>>)}
                ELSE IF info.device2 = NULL
                THEN {Outcome(-1, mnt, log \o <<Ev("mkdir", 0), m.ev>>)}
                ELSE { Outcome(IF r = 0 THEN 0 ELSE -1,
                               AfterMount(mnt, info.mount_point, r),
                               log \o <<Ev("mkdir", 0), m.ev, Ev("mount device2", r)>>) :
                         r \in MountResults(info.mount_point) }
                : m \in mount_internal(info.device, info.mount_point, fs, opts) }
    IN  UNION { IF q.ret >= 0 THEN {Outcome(0, mnt, q.log)} ELSE NotMounted(q.log) :
                  q \in internal_root_mounted(mnt, i) }

\* variant: the result of the mount table rescan is not examined
ensure_root_path_unmounted_noscancheck(mnt, path) ==
    LET i == get_root_info_for_path(path) IN
    IF i = 0 THEN {Outcome(-1, mnt, <<>>)}
    ELSE
    LET info == RootTable[i] IN
    IF info.mount_point = NULL THEN {Outcome(0, mnt, <<>>)}
    ELSE UNION {
        IF info.mount_point \notin mnt
        THEN {Outcome(0, mnt, <<Ev("scan_mounted_volumes", ret)>>)}
        ELSE { Outcome(u, IF u = 0 THEN mnt \ {info.mount_point} ELSE mnt,
                       <<Ev("scan_mounted_volumes", ret),
                         Ev("unmount_mounted_volume", u)>>) : u \in UmountResults }
        : ret \in ScanResults }

\* ensure_root_path_unmounted: outcomes [ret, mounted, log]
ensure_root_path_unmounted(mnt, path) ==
    LET i == get_root_info_for_path(path) IN
    IF i = 0 THEN {Outcome(-1, mnt, <<>>)}
    ELSE
    LET info == RootTable[i] IN
    IF info.mount_point = NULL THEN {Outcome(0, mnt, <<>>)}
    ELSE UNION {
        IF ret < 0 THEN {Outcome(ret, mnt, <<Ev("scan_mounted_volumes", ret)>>)}
        ELSE IF info.mount_point \notin mnt
        THEN {Outcome(0, mnt, <<Ev("scan_mounted_volumes", ret)>>)}
        ELSE { Outcome(u, IF u = 0 THEN mnt \ {info.mount_point} ELSE mnt,
                       <<Ev("scan_mounted_volumes", ret),
                         Ev("unmount_mounted_volume", u)>>) : u \in UmountResults }
        : ret \in ScanResults }

\* variant: only the filesystem of the matching row is stored
RECURSIVE set_type_from_fsonly(_, _, _, _)
set_type_from_fsonly(roots, i, new_fs, k) ==
    IF k > NUM_FSYSTEMS THEN [ret |-> -1, roots |-> roots, fault |-> FALSE]
    ELSE IF strcmp_eq(Mem[new_fs], Mem[g_fs_options[k].filesystem])
    THEN IF i = 0 THEN [ret |-> -1, roots |-> roots, fault |-> TRUE]
         ELSE [ret |-> 0,
               roots |-> [roots EXCEPT ![i].filesystem = g_fs_options[k].filesystem],
               fault |-> FALSE]
    ELSE set_type_from_fsonly(roots, i, new_fs, k + 1)

\* set_type_internal_fs: the status, the table afterwards, and whether the
\* assignment went through a NULL info (an unresolved root_path)
RECURSIVE set_type_from(_, _, _, _)
set_type_from(roots, i, new_fs, k) ==
    IF k > NUM_FSYSTEMS THEN [ret |-> -1, roots |-> roots, fault |-> FALSE]
    ELSE IF strcmp_eq(Mem[new_fs], Mem[g_fs_options[k].filesystem])
    THEN IF i = 0 THEN [ret |-> -1, roots |-> roots, fault |-> TRUE]
         ELSE [ret |-> 0,
               roots |-> [roots EXCEPT ![i] = g_fs_options[k]],
               fault |-> FALSE]
    ELSE set_type_from(roots, i, new_fs, k + 1)

set_type_internal_fs(roots, path, new_fs) ==
    set_type_from(roots, get_root_info_for_path(path), new_fs, 1)

ProbeOutcome(ret, roots, mnt, log) ==
    [ret |-> ret, roots |-> roots, mounted |-> mnt, log |-> log]

\* variant: the candidate is stored in the entry before its mount is tried
RECURSIVE detect_try_storefirst(_, _, _, _, _, _)
detect_try_storefirst(roots, mnt, path, i, k, log) ==
    IF k > NUM_FSYSTEMS THEN {ProbeOutcome(-1, roots, mnt, log)}
    ELSE
    LET info == RootTable[i]
        stored == [roots EXCEPT ![i] = g_fs_options[k]]
    IN
    UNION {
        IF m.ret = 0
        THEN { ProbeOutcome(0, stored, u.mounted, log \o <<m.ev>> \o u.log) :
                 u \in ensure_root_path_unmounted(
                          AfterMount(mnt, info.mount_point, 0), path) }
        ELSE detect_try_storefirst(stored, mnt, path, i, k + 1, log \o <<m.ev>>)
        : m \in mount_internal(info.device, info.mount_point,
                               g_fs_options[k].filesystem,
                               g_fs_options[k].filesystem_options) }

\* the loop of detect_internal_fs from candidate k on
RECURSIVE detect_try(_, _, _, _, _, _)
detect_try(roots, mnt, path, i, k, log) ==
    IF k > NUM_FSYSTEMS THEN {ProbeOutcome(-1, roots, mnt, log)}
    ELSE
    LET info == RootTable[i] IN
    UNION {
        IF m.ret = 0
        THEN { ProbeOutcome(0, [roots EXCEPT ![i] = g_fs_options[k]], u.mounted,
                            log \o <<m.ev>> \o u.log) :
                 u \in ensure_root_path_unmounted(
                          AfterMount(mnt, info.mount_point, 0), path) }
        ELSE detect_try(roots, mnt, path, i, k + 1, log \o <<m.ev>>)
        : m \in mount_internal(info.device, info.mount_point,
                               g_fs_options[k].filesystem,
                               g_fs_options[k].filesystem_options) }

\* detect_internal_fs: outcomes [ret, roots, mounted, log]
detect_internal_fs(roots, mnt, path) ==
    LET i == get_root_info_for_path(path) IN
    IF i = 0 \/ RootTable[i].device = NULL THEN {ProbeOutcome(-1, roots, mnt, <<>>)}
    ELSE UNION {
        IF u.ret < 0 THEN {ProbeOutcome(u.ret, roots, u.mounted, u.log)}
        ELSE detect_try(roots, u.mounted, path, i, 1, u.log)
        : u \in ensure_root_path_unmounted(mnt, path) }

\* the external helpers of format_root_device (roots.c:495-521)
format_generic(device, fs, mnt, log) ==
    IF strcmp_eq(Mem[fs], Mem["rfs"])
    THEN { Outcome(IF r # 0 THEN -1 ELSE 0, mnt, log \o <<Ev("stl.format", r)>>) :
             r \in HelperResults }
    ELSE IF strncmp_eq(Mem[fs], Mem["ext"], 3)
    THEN { Outcome(IF r # 0 THEN -1 ELSE 0, mnt,
                   log \o <<Ev(IF CharAt(Mem[fs], 3) = "2" THEN "mke2fs"
                               ELSE "mke2fs -O ^huge_file,extent", r)>>) :
             r \in HelperResults }
    ELSE { Outcome(r, mnt, log \o <<Ev("format_non_mtd_device", r)>>) : r \in {0, -1} }

\* variant: the result of closing the write context is not examined
format_mtd_ignoring_close(info, fs, mnt, log) ==
    UNION {
        IF part = 0
        THEN {Outcome(-1, mnt, log \o <<Ev("mtd_scan_partitions", 0),
                                        Ev("mtd_find_partition_by_name", part)>>)}
        ELSE
        LET log1 == log \o <<Ev("mtd_scan_partitions", 0),
                             Ev("mtd_find_partition_by_name", part)>> IN
        IF fs = g_raw \/ strcmp_eq(Mem[fs], Mem["yaffs2"])
        THEN UNION {
            IF write = 0
            THEN {Outcome(-1, mnt, log1 \o <<Ev("mtd_write_partition", write)>>)}
            ELSE UNION {
                { Outcome(IF erase = -1 THEN -1 ELSE 0, mnt,
                          log1 \o <<Ev("mtd_write_partition", write),
                                    Ev("mtd_erase_blocks", erase),
                                    Ev("mtd_write_close", close)>>) :
                    close \in {0, -1} }
                : erase \in {0, -1} }
            : write \in FindResults }
        ELSE format_generic(info.device, fs, mnt, log1)
        : part \in FindResults }

\* variant: a failed erase returns without closing the write context
format_mtd_leaking_context(info, fs, mnt, log) ==
    UNION {
        IF part = 0
        THEN {Outcome(-1, mnt, log \o <<Ev("mtd_scan_partitions", 0),
                                        Ev("mtd_find_partition_by_name", part)>>)}
        ELSE
        LET log1 == log \o <<Ev("mtd_scan_partitions", 0),
                             Ev("mtd_find_partition_by_name", part)>> IN
        IF fs = g_raw \/ strcmp_eq(Mem[fs], Mem["yaffs2"])
        THEN UNION {
            IF write = 0
            THEN {Outcome(-1, mnt, log1 \o <<Ev("mtd_write_partition", write)>>)}
            ELSE {Outcome(-1, mnt, log1 \o <<Ev("mtd_write_partition", write),
                                             Ev("mtd_erase_blocks", -1)>>)} \cup
                 { Outcome(IF close # 0 THEN -1 ELSE 0, mnt,
                           log1 \o <<Ev("mtd_write_partition", write),
                                     Ev("mtd_erase_blocks", 0),
                                     Ev("mtd_write_close", close)>>) :
                     close \in {0, -1} }
            : write \in FindResults }
        ELSE format_generic(info.device, fs, mnt, log1)
        : part \in FindResults }

\* the flash branch of format_root_device (roots.c:452-477)
format_mtd(info, fs, mnt, log) ==
    UNION {
        IF part = 0
        THEN {Outcome(-1, mnt, log \o <<Ev("mtd_scan_partitions", 0),
                                        Ev("mtd_find_partition_by_name", part)>>)}
        ELSE
        LET log1 == log \o <<Ev("mtd_scan_partitions", 0),
                             Ev("mtd_find_partition_by_name", part)>> IN
        IF fs = g_raw \/ strcmp_eq(Mem[fs], Mem["yaffs2"])
        THEN UNION {
            IF write = 0
            THEN {Outcome(-1, mnt, log1 \o <<Ev("mtd_write_partition", write)>>)}
            ELSE UNION {
                { Outcome(IF erase = -1 THEN -1 ELSE IF close # 0 THEN -1 ELSE 0, mnt,
                          log1 \o <<Ev("mtd_write_partition", write),
                                    Ev("mtd_erase_blocks", erase),
                                    Ev("mtd_write_close", close)>>) :
                    close \in {0, -1} }
                : erase \in {0, -1} }
            : write \in FindResults }
        ELSE format_generic(info.device, fs, mnt, log1)
        : part \in FindResults }

\* variant: a failed mmc_format_ext3 ends the format with an error
format_mmc_checking_wipe(info, fs, mnt, log) ==
    UNION {
        IF part = 0
        THEN {Outcome(-1, mnt, log \o <<Ev("mmc_scan_partitions", 0),
                                        Ev("mmc_find_partition_by_name", part)>>)}
        ELSE
        LET log1 == log \o <<Ev("mmc_scan_partitions", 0),
                             Ev("mmc_find_partition_by_name", part)>> IN
        IF strcmp_eq(Mem[fs], Mem["ext3"])
        THEN UNION { IF r # 0
                     THEN {Outcome(-1, mnt, log1 \o <<Ev("mmc_format_ext3", r)>>)}
                     ELSE format_generic(info.device, fs, mnt,
                                         log1 \o <<Ev("mmc_format_ext3", r)>>) :
                       r \in {0, -1} }
        ELSE format_generic(info.device, fs, mnt, log1)
        : part \in FindResults }

\* the MMC branch of format_root_device (roots.c:479-493)
format_mmc(info, fs, mnt, log) ==
    UNION {
        IF part = 0
        THEN {Outcome(-1, mnt, log \o <<Ev("mmc_scan_partitions", 0),
                                        Ev("mmc_find_partition_by_name", part)>>)}
        ELSE
        LET log1 == log \o <<Ev("mmc_scan_partitions", 0),
                             Ev("mmc_find_partition_by_name", part)>> IN
        IF strcmp_eq(Mem[fs], Mem["ext3"])
        THEN UNION { format_generic(info.device, fs, mnt,
                                    log1 \o <<Ev("mmc_format_ext3", r)>>) :
                       r \in {0, -1} }
        ELSE format_generic(info.device, fs, mnt, log1)
        : part \in FindResults }

\* what format_root_device does once the volume is known to be unmounted
format_device(info, fs, mnt, log) ==
    IF info.device = g_mtd_device THEN format_mtd(info, fs, mnt, log)
    ELSE IF info.device = g_mmc_device THEN format_mmc(info, fs, mnt, log)
    ELSE format_generic(info.device, fs, mnt, log)

\* variant: the result of the unmount is not examined
format_root_device_ignoring_unmount(roots, mnt, path) ==
    LET i == get_root_info_for_path(path) IN
    IF i = 0 \/ RootTable[i].device = NULL THEN {Outcome(-1, mnt, <<>>)}
    ELSE
    LET info == RootTable[i]
        fs == roots[i].filesystem
    IN  IF info.mount_point # NULL
        THEN UNION { format_device(info, fs, u.mounted, u.log) :
                       u \in ensure_root_path_unmounted(mnt, path) }
        ELSE format_device(info, fs, mnt, <<>>)

\* format_root_device: outcomes [ret, mounted, log]
format_root_device(roots, mnt, path) ==
    LET i == get_root_info_for_path(path) IN
    IF i = 0 \/ RootTable[i].device = NULL THEN {Outcome(-1, mnt, <<>>)}
    ELSE
    LET info == RootTable[i]
        fs == roots[i].filesystem
    IN  IF info.mount_point # NULL
        THEN UNION {
            IF u.ret < 0 THEN {Outcome(u.ret, u.mounted, u.log)}
            ELSE format_device(info, fs, u.mounted, u.log)
            : u \in ensure_root_path_unmounted(mnt, path) }
        ELSE format_device(info, fs, mnt, <<>>)

-----------------------------------------------------------------------------
(* The volume model: one caller works on one root path; every call is a    *)
(* step.  The mount table starts with the volume of that path mounted or   *)
(* not, and with the other volumes mounted or not.  The program is either  *)
(* the build with the defaults of roots.h or the build for a board with    *)
(* the system volume on raw flash and the data volume on MMC.              *)

MountPoints ==
    {RootTable[i].mount_point : i \in 1 .. NUM_ROOTS} \ {NULL}

VolumeInputs ==
    Names \cup { Mem["SYSTEM:"] \o <<"l","i","b">>,
                 <<"U","N","K","N","O","W","N",":","x">>,
                 <<"N","O","L","A","B","E","L">> }

NewFsInputs == {"rfs", "ext4", "ext3", "yaffs2"}

\* the mount point of the volume a path names, as a set
OwnMountPoint(p) ==
    LET i == get_root_info_for_path(p) IN
    IF i = 0 THEN {} ELSE {RootTable[i].mount_point} \ {NULL}

InitialMountTables(p) ==
    { {}, OwnMountPoint(p), MountPoints \ OwnMountPoint(p), MountPoints }

Init ==
    /\ board \in Boards
    /\ g_roots = InitialRoots
    /\ caller_path \in VolumeInputs
    /\ mounted \in InitialMountTables(caller_path)
    /\ g_package = NullArchive
    /\ g_package_path = NoBlock
    /\ heap = <<>>
    /\ last = [op |-> "none"]
    /\ ncalls = 0

\* the process is alive: no call has faulted
Running == last.op # "SIGSEGV"

\* the previous call was the same operation and succeeded
Repeated(op) == last.op = op /\ last.ret = 0

Call(op, o) ==
    [op |-> op, ret |-> o.ret, log |-> o.log, before |-> mounted,
     again |-> Repeated(op)]

\* variant: a successful ensure_root_path_mounted records a filesystem type
\* for the entry, as the probe does
EnsureRootPathMounted_recordingType ==
    /\ Running
    /\ \E o \in ensure_root_path_mounted(g_roots, mounted, caller_path) :
          /\ mounted' = o.mounted
          /\ last' = Call("ensure_root_path_mounted", o)
          /\ LET i == get_root_info_for_path(caller_path) IN
             g_roots' = IF i # 0 /\ o.ret = 0
                        THEN [g_roots EXCEPT ![i] = g_fs_options[1]]
                        ELSE g_roots
    /\ UNCHANGED <<g_package, g_package_path, heap, caller_path, board, ncalls>>

EnsureRootPathMounted ==
    /\ Running
    /\ \E o \in ensure_root_path_mounted(g_roots, mounted, caller_path) :
          /\ mounted' = o.mounted
          /\ last' = Call("ensure_root_path_mounted", o)
    /\ UNCHANGED <<g_roots, g_package, g_package_path, heap, caller_path, board, ncalls>>

EnsureRootPathUnmounted ==
    /\ Running
    /\ \E o \in ensure_root_path_unmounted(mounted, caller_path) :
          /\ mounted' = o.mounted
          /\ last' = Call("ensure_root_path_unmounted", o)
    /\ UNCHANGED <<g_roots, g_package, g_package_path, heap, caller_path, board, ncalls>>

IsRootPathMounted ==
    /\ Running
    /\ \E o \in is_root_path_mounted(mounted, caller_path) :
          last' = Call("is_root_path_mounted", o)
    /\ UNCHANGED <<g_roots, mounted, g_package, g_package_path, heap, caller_path, board, ncalls>>

DetectInternalFs ==
    /\ Running
    /\ \E o \in detect_internal_fs(g_roots, mounted, caller_path) :
          /\ g_roots' = o.roots
          /\ mounted' = o.mounted
          /\ last' = Call("detect_internal_fs", o)
    /\ UNCHANGED <<g_package, g_package_path, heap, caller_path, board, ncalls>>

\* what the store through a NULL info can do: the process faults, or the
\* store lands in memory outside the table and the function returns 0
NullStoreOutcomes == {"SIGSEGV", "stored"}

SetTypeInternalFs(new_fs) ==
    /\ Running
    /\ LET o == set_type_internal_fs(g_roots, caller_path, new_fs) IN
       \E ub \in (IF o.fault THEN NullStoreOutcomes ELSE {"none"}) :
          /\ g_roots' = o.roots
          /\ last' = IF ub = "SIGSEGV"
                     THEN [op |-> "SIGSEGV", in |-> "set_type_internal_fs",
                           new_fs |-> new_fs]
                     ELSE [op |-> "set_type_internal_fs",
                           ret |-> IF ub = "stored" THEN 0 ELSE o.ret,
                           log |-> <<>>, before |-> mounted,
                           again |-> Repeated("set_type_internal_fs"),
                           new_fs |-> new_fs]
    /\ UNCHANGED <<mounted, g_package, g_package_path, heap, caller_path, board, ncalls>>

FormatRootDevice ==
    /\ Running
    /\ \E o \in format_root_device(g_roots, mounted, caller_path) :
          /\ mounted' = o.mounted
          /\ last' = Call("format_root_device", o)
    /\ UNCHANGED <<g_roots, g_package, g_package_path, heap, caller_path, board, ncalls>>

\* a script mounts or unmounts the volume underneath the module
MountTableChanges ==
    /\ Running
    /\ \E m \in OwnMountPoint(caller_path) :
          mounted' = IF m \in mounted THEN mounted \ {m} ELSE mounted \cup {m}
    /\ last' = [op |-> "mount table changed"]
    /\ UNCHANGED <<g_roots, g_package, g_package_path, heap, caller_path, board, ncalls>>

Next ==
    \/ EnsureRootPathMounted
    \/ EnsureRootPathUnmounted
    \/ IsRootPathMounted
    \/ DetectInternalFs
    \/ \E new_fs \in NewFsInputs : SetTypeInternalFs(new_fs)
    \/ FormatRootDevice
    \/ MountTableChanges

Spec == Init /\ [][Next]_vars

-----------------------------------------------------------------------------
(* Properties of path resolution and translation (SpecPath) *)

Chars(s) == {s[k] : k \in 1 .. Len(s)}

\* the label of a path: everything up to and including its first colon
LabelOf(p) ==
    LET k == CHOOSE j \in 1 .. Len(p) :
                 p[j] = ":" /\ \A h \in 1 .. j - 1 : p[h] # ":"
    IN  SubSeq(p, 1, k)

EntriesNamed(label) == {i \in 1 .. NUM_ROOTS : Mem[RootTable[i].name] = label}

Least(S) == CHOOSE x \in S : \A y \in S : x <= y

\* what follows the label, without its leading separators
RECURSIVE DropSlashes(_)
DropSlashes(s) == IF s # <<>> /\ Head(s) = "/" THEN DropSlashes(Tail(s)) ELSE s

RelativePart(p) == DropSlashes(SubSeq(p, Len(LabelOf(p)) + 1, Len(p)))

\* a path up to trailing separators
RECURSIVE DropTrailingSlashes(_)
DropTrailingSlashes(s) ==
    IF Len(s) > 1 /\ s[Len(s)] = "/"
    THEN DropTrailingSlashes(SubSeq(s, 1, Len(s) - 1)) ELSE s

\* C7: get_root_info_for_path fails for a path without ':' and for a path
\* whose prefix up to and including the first ':' is no entry's name;
\* otherwise it returns the first entry, in table order, whose name equals
\* that prefix exactly.
C7_ResolveExactLabel ==
    last.op = "get_root_info_for_path" =>
        IF ":" \notin Chars(last.path) THEN last.info = 0
        ELSE IF EntriesNamed(LabelOf(last.path)) = {} THEN last.info = 0
        ELSE last.info = Least(EntriesNamed(LabelOf(last.path)))

\* a path with a relative part resolved to DATADATA:, whose name extends DATA:
C7_Witness ==
    /\ last.op = "get_root_info_for_path"
    /\ last.path = Mem["DATADATA:"] \o <<"l","i","b">>
    /\ last.info = 3

\* C8 as stated: for every configured label, translating exactly the label
\* into a large enough buffer yields the entry's mount point, up to
\* trailing separators.
C8_AsStated ==
    (/\ last.op = "translate_root_path"
     /\ last.path \in Names
     /\ last.cap = MaxCap) =>
        /\ last.res.ok
        /\ \A i \in EntriesNamed(last.path) :
              DropTrailingSlashes(last.res.out)
                  = DropTrailingSlashes(Mem[RootTable[i].mount_point])

\* C8 amended: for every configured label whose entry has a mount point,
\* translating exactly the label into a buffer of at least strlen(mount
\* point) + 2 bytes yields the mount point followed by one separator, or
\* the mount point itself when it already ends in the separator; for a
\* label whose entry has no mount point the translation fails.
C8_LabelTranslatesToMountPoint ==
    (/\ last.op = "translate_root_path"
     /\ last.path \in Names) =>
        \A i \in EntriesNamed(last.path) :
            IF RootTable[i].mount_point = NULL THEN ~last.res.ok
            ELSE LET mp == Mem[RootTable[i].mount_point] IN
                 last.cap >= Len(mp) + 2 =>
                   /\ last.res.ok
                   /\ last.res.out = IF mp[Len(mp)] = "/" THEN mp ELSE mp \o <<"/">>

\* SYSTEM: alone translates to "/system/"
C8_Witness ==
    /\ last.op = "translate_root_path"
    /\ last.path = Mem["SYSTEM:"]
    /\ last.res.ok
    /\ last.res.out = <<"/","s","y","s","t","e","m","/">>

\* no write of translate_root_path lands at or beyond out_buf_len, and a
\* failed call writes nothing
TranslateInBounds ==
    /\ ~last.res.ok => last.res.written = {}
    /\ \A k \in last.res.written : k >= 0 /\ k < last.cap

Translatable(p) ==
    /\ ":" \in Chars(p)
    /\ EntriesNamed(LabelOf(p)) # {}
    /\ RootTable[Least(EntriesNamed(LabelOf(p)))].mount_point # NULL

MountPointOf(p) == Mem[RootTable[Least(EntriesNamed(LabelOf(p)))].mount_point]

\* C9 as stated: translate_root_path never writes out of bounds, and it
\* succeeds whenever the capacity holds mount point + separator if one is
\* needed + remainder + terminator.
C9_AsStated ==
    last.op = "translate_root_path" =>
        /\ TranslateInBounds
        /\ Translatable(last.path) =>
             LET mp == MountPointOf(last.path)
                 needed == Len(mp) + (IF mp[Len(mp)] = "/" THEN 0 ELSE 1)
                           + Len(RelativePart(last.path)) + 1
             IN  last.cap >= needed => last.res.ok

\* C9 amended: translate_root_path never writes out of bounds, a failed
\* call writes nothing, and for a resolvable entry with a mount point it
\* succeeds exactly when the capacity is at least strlen(mount point) + 1
\* + strlen(remainder) + 1: the separator is counted even when the mount
\* point already ends in one and none is inserted.
C9_TranslateBounded ==
    last.op = "translate_root_path" =>
        /\ TranslateInBounds
        /\ Translatable(last.path) =>
             (last.res.ok <=>
                last.cap >= Len(MountPointOf(last.path)) + 1
                            + Len(RelativePart(last.path)) + 1)
        /\ ~Translatable(last.path) => ~last.res.ok

\* SYSTEM:lib translated into a buffer of exactly 12 bytes, all of them written
C9_Witness ==
    /\ last.op = "translate_root_path"
    /\ last.path = Mem["SYSTEM:"] \o <<"l","i","b">>
    /\ last.res.ok
    /\ last.res.out = <<"/","s","y","s","t","e","m","/","l","i","b">>
    /\ last.res.written = 0 .. last.cap - 1

-----------------------------------------------------------------------------
(* Properties of the package root binding (SpecPkg) *)

IsPackagePath(p) ==
    Len(p) >= Len(Mem["PACKAGE:"]) /\ SubSeq(p, 1, Len(Mem["PACKAGE:"])) = Mem["PACKAGE:"]

\* C5: with an archive bound, translate_package_root_path on the package
\* label followed by a relative path yields that relative path and the
\* bound archive; once register_package_root(NULL, ..) has cleared the
\* binding, every translate_package_root_path fails until an archive is
\* bound again.
C5_AsStated ==
    last.op = "translate_package_root_path" =>
        /\ (g_package # NullArchive /\ IsPackagePath(last.path)
                /\ last.cap > Len(last.path) - Len(Mem["PACKAGE:"])) =>
             /\ last.res.ok
             /\ last.res.out = SubSeq(last.path, Len(Mem["PACKAGE:"]) + 1, Len(last.path))
             /\ last.res.out_package = g_package
        /\ last.cleared => ~last.res.ok

\* C6: no owned path string is ever allocated but unreferenced: the only
\* live heap block is the one g_package_path points to.
C6_AsStated == DOMAIN heap \subseteq {g_package_path}

-----------------------------------------------------------------------------
(* Properties of the mount, probe and format operations (Spec) *)

Calls(log) == {log[k][1] : k \in 1 .. Len(log)}

Failed(log, f) == \E k \in 1 .. Len(log) : log[k][1] = f /\ log[k][2] # 0

MountPrimitives == {"mount", "__system mount", "mount device2", "mtd_mount_partition"}

FormatPrimitives ==
    {"mtd_write_partition", "mtd_erase_blocks", "mtd_write_close", "mmc_format_ext3",
     "stl.format", "mke2fs", "mke2fs -O ^huge_file,extent", "format_non_mtd_device"}

DevicePrimitives ==
    MountPrimitives \cup FormatPrimitives \cup
    {"unmount_mounted_volume", "mkdir", "mtd_scan_partitions",
     "mtd_find_partition_by_name", "mmc_scan_partitions", "mmc_find_partition_by_name"}

\* the entry the caller's path names, found by comparing whole labels
CallerEntry ==
    IF ":" \in Chars(caller_path) THEN EntriesNamed(LabelOf(caller_path)) ELSE {}

WasMounted == \E i \in CallerEntry : RootTable[i].mount_point \in last.before

IsMounted == \E i \in CallerEntry : RootTable[i].mount_point \in mounted

\* C1: a successful ensure_root_path_mounted immediately followed by a
\* second call on the same path: the second call returns success and
\* issues no mount primitive.
C1_AsStated ==
    (last.op = "ensure_root_path_mounted" /\ last.again) =>
        /\ last.ret = 0
        /\ Calls(last.log) \cap MountPrimitives = {}

\* C2: when detect_internal_fs returns from a call that probed the volume
\* (attempted a mount), with success or with failure, the volume's mount
\* point is not in the mount table.
C2_AsStated ==
    (last.op = "detect_internal_fs" /\ Calls(last.log) \cap MountPrimitives # {}) =>
        ~IsMounted

\* C3: format_root_device on a mounted volume: no erase or format
\* primitive is invoked before an unmount has succeeded, and if the
\* unmount fails the call fails and invokes no erase or format primitive.
C3_FormatUnmountsFirst ==
    (last.op = "format_root_device" /\ WasMounted) =>
        /\ \A k \in 1 .. Len(last.log) :
              last.log[k][1] \in FormatPrimitives =>
                 \E j \in 1 .. k - 1 : last.log[j] = Ev("unmount_mounted_volume", 0)
        /\ Failed(last.log, "unmount_mounted_volume") =>
              /\ last.ret < 0
              /\ Calls(last.log) \cap FormatPrimitives = {}

\* format of a mounted volume whose unmount failed
C3_Witness ==
    /\ last.op = "format_root_device"
    /\ WasMounted
    /\ last.log = <<Ev("scan_mounted_volumes", 0), Ev("unmount_mounted_volume", -1)>>
    /\ last.ret < 0

\* C4 as stated: ensure_root_path_unmounted on a resolvable volume that
\* is not mounted, or has no mount point, returns success and invokes
\* neither the unmount primitive nor any operation on the device,
\* whatever the rescan of the mount table returns.
C4_AsStated ==
    (last.op = "ensure_root_path_unmounted" /\ CallerEntry # {} /\ ~WasMounted) =>
        /\ last.ret = 0
        /\ Calls(last.log) \cap DevicePrimitives = {}

\* C4 amended: ensure_root_path_unmounted on a resolvable volume that is
\* not mounted, or has no mount point, invokes neither the unmount
\* primitive nor any operation on the device; it returns success, except
\* that for a volume with a mount point a failed rescan of the mount
\* table makes it return the rescan's negative status.  A volume without
\* mount point causes no rescan.
C4_UnmountedIsNoOp ==
    (last.op = "ensure_root_path_unmounted" /\ CallerEntry # {} /\ ~WasMounted) =>
        /\ Calls(last.log) \cap DevicePrimitives = {}
        /\ IF Failed(last.log, "scan_mounted_volumes")
           THEN last.ret < 0 ELSE last.ret = 0
        /\ \A i \in CallerEntry :
              RootTable[i].mount_point = NULL => last.log = <<>> /\ last.ret = 0

\* an unmounted volume with a mount point, and the rescan failed
C4_Witness ==
    /\ last.op = "ensure_root_path_unmounted"
    /\ CallerEntry # {}
    /\ ~WasMounted
    /\ last.log = <<Ev("scan_mounted_volumes", -1)>>
    /\ last.ret < 0

\* C10: is_root_path_mounted is negative on every error (unresolved path,
\* failed rescan), positive when the mount point is in the mount table,
\* and zero only when the lookup succeeded and the volume is not mounted.
C10_AsStated ==
    last.op = "is_root_path_mounted" =>
        /\ (CallerEntry = {} \/ Failed(last.log, "scan_mounted_volumes")) => last.ret < 0
        /\ (~Failed(last.log, "scan_mounted_volumes") /\ IsMounted) => last.ret > 0
        /\ last.ret = 0 =>
              CallerEntry # {} /\ ~Failed(last.log, "scan_mounted_volumes") /\ ~IsMounted

\* the operations that only read the filesystem fields of the root table
TypeReaders ==
    {"ensure_root_path_mounted", "ensure_root_path_unmounted", "is_root_path_mounted",
     "format_root_device", "get_root_info_for_path", "translate_root_path",
     "translate_package_root_path", "register_package_root"}

\* C11: the filesystem and filesystem_options fields of every root table
\* entry change only in detect_internal_fs and set_type_internal_fs:
\* ensure_root_path_mounted, ensure_root_path_unmounted,
\* is_root_path_mounted, format_root_device, the translate operations and
\* register_package_root leave both fields of every entry as they were,
\* whether they succeed or fail.
C11_OnlyProbeAndOverrideSetType ==
    [][ /\ last'.op \in TypeReaders => g_roots' = g_roots
        /\ g_roots' # g_roots =>
              last'.op \in {"detect_internal_fs", "set_type_internal_fs"} ]_vars

\* a successful format of a volume whose type an earlier call has replaced
C11_Witness ==
    /\ g_roots # InitialRoots
    /\ last.op = "format_root_device"
    /\ last.ret = 0
    /\ Calls(last.log) \cap FormatPrimitives # {}

FlashLookups ==
    {"mtd_scan_partitions", "mtd_find_partition_by_name",
     "mmc_scan_partitions", "mmc_find_partition_by_name"}

\* the caller's path names an entry without mount point
NoMountPoint == CallerEntry # {} /\ \A i \in CallerEntry : RootTable[i].mount_point = NULL

\* C12: ensure_root_path_mounted on an entry that has no mount point
\* fails before any dispatch on the kind of device: it invokes no rescan
\* or lookup of flash partitions and no mount primitive, also when the
\* entry's device is the flash marker.
C12_AsStated ==
    (last.op = "ensure_root_path_mounted" /\ NoMountPoint) =>
        /\ last.ret < 0
        /\ Calls(last.log) \cap (FlashLookups \cup MountPrimitives) = {}

PrimaryMounts == {"mount", "__system mount"}

\* the positions of the mount attempts in a log
MountAttempts(log) == {k \in 1 .. Len(log) : log[k][1] \in MountPrimitives}

\* the last call was ensure_root_path_mounted and reached its generic branch
GenericMount == last.op = "ensure_root_path_mounted" /\ "mkdir" \in Calls(last.log)

HasDevice2 == \E i \in CallerEntry : RootTable[i].device2 # NULL

\* C13: in the generic branch of ensure_root_path_mounted the first mount
\* attempt is against the primary device; device2 is tried only directly
\* after the primary attempt failed and only if device2 is configured,
\* and it is tried whenever both hold; the call fails exactly when the
\* primary attempt fails and either there is no device2 or the device2
\* attempt fails too; a call makes at most two mount attempts.
C13_FallbackOnlyAfterPrimaryFailure ==
    GenericMount =>
        LET att == MountAttempts(last.log)
            first == Least(att)
            primaryFailed == last.log[first][2] # 0
            tried2 == "mount device2" \in Calls(last.log)
        IN  /\ Cardinality(att) \in {1, 2}
            /\ last.log[first][1] \in PrimaryMounts
            /\ \A k \in att \ {first} :
                  k = first + 1 /\ last.log[k][1] = "mount device2"
            /\ tried2 <=> (primaryFailed /\ HasDevice2)
            /\ last.ret < 0 <=>
                  primaryFailed /\ (~HasDevice2 \/ Failed(last.log, "mount device2"))
            /\ last.ret \in {0, -1}

\* the primary device of SDCARD: does not mount and its device2 does
C13_Witness ==
    /\ GenericMount
    /\ HasDevice2
    /\ Failed(last.log, "mount")
    /\ Ev("mount device2", 0) = last.log[Len(last.log)]
    /\ last.ret = 0

\* the results of the probe mounts of a log, in the order they were made
RECURSIVE ProbeResults(_)
ProbeResults(log) ==
    IF log = <<>> THEN <<>>
    ELSE IF log[1][1] \in PrimaryMounts
         THEN <<log[1][2]>> \o ProbeResults(Tail(log))
         ELSE ProbeResults(Tail(log))

\* C14: detect_internal_fs tries the candidates of g_fs_options in the
\* declared order and stops at the first whose mount succeeds: the n-th
\* probe mount of a call is made only after n-1 failed ones, and when it
\* succeeds the call returns success with the entry's filesystem and
\* filesystem_options equal to the n-th pair of the table, and no further
\* candidate is tried.  When no candidate mounts, or the initial unmount
\* fails (no probe mount is made), the call fails and the fields of every
\* entry are unchanged.
C14_FirstMountingCandidateWins ==
    [][ last'.op = "detect_internal_fs" =>
          LET res == ProbeResults(last'.log)
              n == Len(res)
          IN  /\ n <= NUM_FSYSTEMS
              /\ \A j \in 1 .. n - 1 : res[j] # 0
              /\ IF n > 0 /\ res[n] = 0
                 THEN /\ last'.ret = 0
                      /\ \A i \in CallerEntry :
                            g_roots' = [g_roots EXCEPT ![i] = g_fs_options[n]]
                 ELSE /\ last'.ret < 0
                      /\ g_roots' = g_roots
                      /\ n \in {0, NUM_FSYSTEMS} ]_vars

\* the first candidate did not mount, the second did, and the entry now
\* carries the second pair
C14_Witness ==
    /\ last.op = "detect_internal_fs"
    /\ ProbeResults(last.log) = <<1, 0>>
    /\ last.ret = 0
    /\ \E i \in CallerEntry : g_roots[i] = g_fs_options[2]

FlashStages == <<"mtd_write_partition", "mtd_erase_blocks", "mtd_write_close">>

GenericFormats ==
    {"mmc_format_ext3", "stl.format", "mke2fs", "mke2fs -O ^huge_file,extent",
     "format_non_mtd_device"}

IsFlashStage(e) == e[1] \in {FlashStages[k] : k \in 1 .. 3}

\* the caller's volume is on raw flash and its filesystem is the raw
\* sentinel or "yaffs2"
RawFlashVolume ==
    \E i \in CallerEntry :
        /\ RootTable[i].device = g_mtd_device
        /\ \/ g_roots[i].filesystem = g_raw
           \/ CStr(Mem[g_roots[i].filesystem]) = Mem["yaffs2"]

\* C15: format_root_device on a flash volume whose filesystem is the raw
\* sentinel or "yaffs2" opens the partition once it has found it, erases
\* after a successful open and only then, and closes after the erase, in
\* that order; it returns success exactly when open, erase and close all
\* succeeded, and no rfs, ext or non-MTD format runs in any such call.
C15_FlashEraseStages ==
    (last.op = "format_root_device" /\ RawFlashVolume) =>
        LET st == SelectSeq(last.log, IsFlashStage)
            n == Len(st)
        IN  /\ n \in {0, 1, 3}
            /\ \A k \in 1 .. n : st[k][1] = FlashStages[k]
            /\ n > 0 <=> \E k \in 1 .. Len(last.log) :
                            last.log[k] = Ev("mtd_find_partition_by_name", 1)
            /\ n = 1 <=> (n > 0 /\ st[1][2] = 0)
            /\ last.ret = 0 <=>
                  n = 3 /\ st[1][2] # 0 /\ st[2][2] = 0 /\ st[3][2] = 0
            /\ last.ret \in {0, -1}
            /\ Calls(last.log) \cap GenericFormats = {}

\* a yaffs2 volume on flash is opened, erased and closed, and the format
\* succeeds
C15_Witness ==
    /\ last.op = "format_root_device"
    /\ \E i \in CallerEntry :
          RootTable[i].device = g_mtd_device /\ g_roots[i].filesystem = "yaffs2"
    /\ SelectSeq(last.log, IsFlashStage) =
          <<Ev("mtd_write_partition", 1), Ev("mtd_erase_blocks", 0),
            Ev("mtd_write_close", 0)>>
    /\ last.ret = 0

\* the caller's volume is an MMC partition with filesystem "ext3"
MmcExt3Volume ==
    \E i \in CallerEntry :
        /\ RootTable[i].device = g_mmc_device
        /\ CStr(Mem[g_roots[i].filesystem]) = Mem["ext3"]

\* C16: format_root_device on a volume whose device is the MMC marker and
\* whose filesystem is "ext3" invokes mmc_format_ext3 once it has found
\* the partition and then, whatever mmc_format_ext3 returned, runs the
\* mke2fs helper of the ext branch as its last step; the call returns
\* success exactly when that helper exits with 0, so a failed
\* mmc_format_ext3 alone does not make the format fail.
C16_MmcExt3AlsoRunsMke2fs ==
    (last.op = "format_root_device" /\ MmcExt3Volume) =>
        LET log == last.log
            n == Len(log)
            found == \E k \in 1 .. n : log[k] = Ev("mmc_find_partition_by_name", 1)
        IN  /\ found <=> "mmc_format_ext3" \in Calls(log)
            /\ found =>
                  /\ n >= 2
                  /\ log[n - 1][1] = "mmc_format_ext3"
                  /\ log[n][1] = "mke2fs -O ^huge_file,extent"
                  /\ last.ret = 0 <=> log[n][2] = 0
            /\ ~found => last.ret < 0 /\ Calls(log) \cap FormatPrimitives = {}
            /\ Calls(log) \cap {"stl.format", "mke2fs", "format_non_mtd_device"} = {}

\* mmc_format_ext3 failed, mke2fs succeeded, and the format reports success
C16_Witness ==
    /\ last.op = "format_root_device"
    /\ MmcExt3Volume
    /\ Failed(last.log, "mmc_format_ext3")
    /\ last.log[Len(last.log)] = Ev("mke2fs -O ^huge_file,extent", 0)
    /\ last.ret = 0

\* new_fs names a row of g_fs_options
KnownFs(new_fs) ==
    \E k \in 1 .. NUM_FSYSTEMS : Mem[new_fs] = Mem[g_fs_options[k].filesystem]

\* C17: set_type_internal_fs never terminates the process, and called
\* with a label that resolves to no entry of the root table, or with a
\* filesystem name that is in no row of g_fs_options, it returns a
\* negative status and leaves the fields of every entry unchanged.
C17_AsStated ==
    [][ /\ last'.op # "SIGSEGV"
        /\ ( /\ last'.op = "set_type_internal_fs"
             /\ CallerEntry = {} \/ ~KnownFs(last'.new_fs) ) =>
               last'.ret < 0 /\ g_roots' = g_roots ]_vars

\* positions in a log where a write context was opened, and where one was
\* closed
Opened(log) == {k \in 1 .. Len(log) : log[k] = Ev("mtd_write_partition", 1)}

Closed(log) == {k \in 1 .. Len(log) : log[k][1] = "mtd_write_close"}

\* C18: every MTD write context that format_root_device opens is closed
\* exactly once before the call returns, after a successful erase and
\* after a failed one: a returned call has as many closes as successful
\* opens, at most one of each, the close after the open and after the
\* erase, and a failed open is followed by no close.
C18_WriteContextClosedOnce ==
    last.op = "format_root_device" =>
        LET log == last.log IN
        /\ Cardinality(Opened(log)) <= 1
        /\ Cardinality(Closed(log)) = Cardinality(Opened(log))
        /\ \A c \in Closed(log) :
              /\ \E o \in Opened(log) : o < c
              /\ log[c - 1][1] = "mtd_erase_blocks"
              /\ c = Len(log)

\* the erase failed and the context was closed before the call returned
C18_Witness ==
    /\ last.op = "format_root_device"
    /\ Opened(last.log) # {}
    /\ Failed(last.log, "mtd_erase_blocks")
    /\ Cardinality(Closed(last.log)) = 1
    /\ last.ret < 0

HasMountPoint == CallerEntry # {} /\ ~NoMountPoint

\* the mount table after a successful call agrees with what the call
\* reported
MountPostconditions ==
    /\ (last.op = "ensure_root_path_mounted" /\ HasMountPoint /\ last.ret = 0) =>
          IsMounted
    /\ (last.op = "ensure_root_path_unmounted" /\ HasMountPoint /\ last.ret = 0) =>
          ~IsMounted

\* C19: for every entry with a mount point, when ensure_root_path_mounted
\* returns success the mount point is in the mount table, and when
\* ensure_root_path_unmounted returns success it is not.  A failed rescan
\* of the mount table is not turned into a success: ensure_root_path_unmounted
\* fails when its rescan fails, and ensure_root_path_mounted succeeds after
\* a failed rescan only if a mount it then made succeeded.
C19_SuccessMatchesMountTable ==
    /\ MountPostconditions
    /\ ( /\ last.op = "ensure_root_path_unmounted"
         /\ HasMountPoint
         /\ Failed(last.log, "scan_mounted_volumes") ) => last.ret < 0
    /\ ( /\ last.op = "ensure_root_path_mounted"
         /\ HasMountPoint
         /\ Failed(last.log, "scan_mounted_volumes")
         /\ last.ret = 0 ) =>
            \E k \in MountAttempts(last.log) : last.log[k][2] = 0

\* the rescan failed, the mount that followed succeeded, and the volume
\* is in the mount table
C19_Witness ==
    /\ last.op = "ensure_root_path_mounted"
    /\ HasMountPoint
    /\ Failed(last.log, "scan_mounted_volumes")
    /\ last.ret = 0
    /\ IsMounted

\* the rows of g_fs_options, as (filesystem, filesystem_options) pairs
FsRows == {g_fs_options[k] : k \in 1 .. NUM_FSYSTEMS}

\* C20: after any sequence of set_type_internal_fs and detect_internal_fs
\* calls, successful or failed, the (filesystem, filesystem_options) pair
\* of each root table entry is the pair it was compiled with or one whole
\* row of g_fs_options, never a filesystem of one row with the options of
\* another row or of the entry's initialiser; and a call changes the pair
\* of no entry but the one its label names.
C20_TypeAndOptionsStayPaired ==
    /\ [](\A i \in 1 .. NUM_ROOTS : g_roots[i] = InitialRoots[i] \/ g_roots[i] \in FsRows)
    /\ [][\A i \in 1 .. NUM_ROOTS : g_roots'[i] # g_roots[i] => i \in CallerEntry]_vars

\* set_type_internal_fs has replaced the compiled pair of the caller's
\* entry by the whole ext4 row
C20_Witness ==
    /\ last.op = "set_type_internal_fs"
    /\ last.ret = 0
    /\ last.new_fs = "ext4"
    /\ \E i \in CallerEntry :
          g_roots[i] = g_fs_options[2] /\ g_roots[i] # InitialRoots[i]

=============================================================================
